---- MODULE Spec2Model ----
(***************************************************************************)
(* The fallback hasher of aHash (src/src/fallback_hash.rs): the keyed      *)
(* state AHasher {buffer, key}, the mixing function hash(data, key), the   *)
(* primitive absorptions write_u8 .. write_u128 / write_usize, the bulk    *)
(* absorption write(&[u8]) and finish().                                   *)
(*                                                                         *)
(* A u64 is a tuple of four 16-bit limbs, least significant limb first     *)
(* (the value is x[1] + 2^16 x[2] + 2^32 x[3] + 2^48 x[4]), so that all    *)
(* arithmetic is exact modulo 2^64.  A u32 is two limbs, a u128 eight; a   *)
(* u16 and a u8 are plain numbers.  A byte slice is a sequence of numbers  *)
(* in 0..255.                                                              *)
(***************************************************************************)
EXTENDS Integers, Sequences, FiniteSets, TLC

(***************************************************************************)
(* 64-bit arithmetic                                                       *)
(***************************************************************************)

RECURSIVE XorNat(_, _)
\* bitwise exclusive or of two naturals
XorNat(a, b) ==
    IF a = 0 THEN b
    ELSE IF b = 0 THEN a
    ELSE (((a % 2) + (b % 2)) % 2) + 2 * XorNat(a \div 2, b \div 2)

\* exclusive or of two 4-bit values, tabulated
XorTab == [a \in 0..15 |-> [b \in 0..15 |-> XorNat(a, b)]]

\* exclusive or of two 16-bit limbs
XorLimb(a, b) ==
      XorTab[a % 16][b % 16]
    + 16 * XorTab[(a \div 16) % 16][(b \div 16) % 16]
    + 256 * XorTab[(a \div 256) % 16][(b \div 256) % 16]
    + 4096 * XorTab[a \div 4096][b \div 4096]

\* u64 ^ u64
xor(x, y) ==
    <<XorLimb(x[1], y[1]), XorLimb(x[2], y[2]), XorLimb(x[3], y[3]), XorLimb(x[4], y[4])>>

\* u64::wrapping_mul: the product modulo 2^64, by limbs.  A limb product
\* x[i] * y[j] has weight 2^(16 (i + j - 2)) and is taken in two parts,
\* x[i] * (low byte of y[j]) and x[i] * (high byte of y[j]) * 256: Low is
\* what the two parts contribute at that weight and High what the second part
\* carries into the next weight.  Limb k of the result is the sum of the
\* contributions at its weight and of the carry from limb k - 1, modulo 2^16;
\* anything of weight 2^64 and above is dropped.
wrapping_mul(x, y) ==
    LET Low(i, j)  == x[i] * (y[j] % 256) + ((x[i] * (y[j] \div 256)) % 256) * 256
        High(i, j) == (x[i] * (y[j] \div 256)) \div 256
        c1 == Low(1, 1)
        c2 == (c1 \div 65536) + Low(1, 2) + Low(2, 1) + High(1, 1)
        c3 == (c2 \div 65536) + Low(1, 3) + Low(2, 2) + Low(3, 1)
                              + High(1, 2) + High(2, 1)
        c4 == (c3 \div 65536) + Low(1, 4) + Low(2, 3) + Low(3, 2) + Low(4, 1)
                              + High(1, 3) + High(2, 2) + High(3, 1)
    IN  <<c1 % 65536, c2 % 65536, c3 % 65536, c4 % 65536>>

\* 2^r for 0 <= r <= 16
Pow2(r) == <<1, 2, 4, 8, 16, 32, 64, 128, 256, 512, 1024, 2048, 4096, 8192,
             16384, 32768, 65536>>[r + 1]

\* u64::rotate_left(n) for 0 <= n < 64: n = 16 q + r moves every limb up q
\* places and then every bit up r places, the top bits wrapping around
rotate_left(x, n) ==
    LET q == n \div 16
        r == n % 16
        at(i) == x[((i + 7) % 4) + 1]
    IN  <<((at(1 - q) * Pow2(r)) % 65536) + (at(0 - q) \div Pow2(16 - r)),
          ((at(2 - q) * Pow2(r)) % 65536) + (at(1 - q) \div Pow2(16 - r)),
          ((at(3 - q) * Pow2(r)) % 65536) + (at(2 - q) \div Pow2(16 - r)),
          ((at(4 - q) * Pow2(r)) % 65536) + (at(3 - q) \div Pow2(16 - r))>>

\* const MULTIPLE: u64 = 6364136223846793005 = 0x5851F42D4C957F2D
MULTIPLE == <<32557, 19605, 62509, 22609>>

\* hash with a shift where the rotation is: the 17 bits that should wrap
\* around to the bottom are lost
hash_shift_left(data, key) ==
    LET r == rotate_left(wrapping_mul(data, MULTIPLE), 17)
        shifted == <<0, r[2] - (r[2] % 2), r[3], r[4]>>
    IN  wrapping_mul(xor(shifted, key), MULTIPLE)

\* fn hash(data: u64, key: u64) -> u64
hash(data, key) ==
    wrapping_mul(xor(rotate_left(wrapping_mul(data, MULTIPLE), 17), key), MULTIPLE)

(***************************************************************************)
(* Integer casts and the byte-array conversions of crate::convert          *)
(***************************************************************************)

\* i as u64 for a u8 or u16 i (zero extension)
small_as_u64(i) == <<i, 0, 0, 0>>

\* i as u64 for a u32 i
u32_as_u64(i) == <<i[1], i[2], 0, 0>>

\* input.len() as u64
len_as_u64(n) == <<n % 65536, n \div 65536, 0, 0>>

\* [u8; 2] -> u16, little-endian
convert_u16(b) == b[1] + 256 * b[2]

\* [u8; 4] -> u32, little-endian
convert_u32(b) == <<b[1] + 256 * b[2], b[3] + 256 * b[4]>>

\* [u8; 8] -> u64, little-endian
convert_u64(b) ==
    <<b[1] + 256 * b[2], b[3] + 256 * b[4], b[5] + 256 * b[6], b[7] + 256 * b[8]>>

\* u128 -> [u64; 2]: element 0 holds the low 64 bits, element 1 the high 64
convert_u128(i) == <<SubSeq(i, 1, 4), SubSeq(i, 5, 8)>>

(***************************************************************************)
(* The primitive absorptions, as functions of the hasher (self)            *)
(***************************************************************************)

\* AHasher::new_with_keys
new_with_keys(key0, key1) == [buffer |-> key0, key |-> key1]

\* fn write_u8(&mut self, i: u8)
write_u8(self, i) ==
    [self EXCEPT !.buffer = hash(xor(self.buffer, small_as_u64(i)), self.key)]

\* write_u16 storing the mixed value in key where buffer is meant
write_u16_into_key(self, i) ==
    [self EXCEPT !.key = hash(xor(self.buffer, small_as_u64(i)), self.key)]

\* fn write_u16(&mut self, i: u16)
write_u16(self, i) ==
    [self EXCEPT !.buffer = hash(xor(self.buffer, small_as_u64(i)), self.key)]

\* fn write_u32(&mut self, i: u32)
write_u32(self, i) ==
    [self EXCEPT !.buffer = hash(xor(self.buffer, u32_as_u64(i)), self.key)]

\* fn write_u64(&mut self, i: u64)
write_u64(self, i) ==
    [self EXCEPT !.buffer = hash(xor(self.buffer, i), self.key)]

\* write_u128 absorbing the high half before the low half
write_u128_high_first(self, i) ==
    LET data == convert_u128(i)
        s1   == [self EXCEPT !.buffer = hash(xor(self.buffer, data[2]), self.key)]
    IN  [s1 EXCEPT !.buffer = hash(xor(s1.buffer, data[1]), s1.key)]

\* fn write_u128(&mut self, i: u128)
write_u128(self, i) ==
    LET data == convert_u128(i)
        s1   == [self EXCEPT !.buffer = hash(xor(self.buffer, data[1]), self.key)]
    IN  [s1 EXCEPT !.buffer = hash(xor(s1.buffer, data[2]), s1.key)]

\* fn write_usize(&mut self, i: usize), usize being 64 bits wide
write_usize(self, i) == write_u64(self, i)

\* finish mixing key where buffer is meant
finish_of_key(self) == hash(self.key, self.key)

\* fn finish(&self) -> u64
finish(self) == hash(self.buffer, self.key)

(***************************************************************************)
(* fn write(&mut self, input: &[u8]), block by block.  A frame holds the   *)
(* locals of one call: self, data (the bytes not yet split off), length,   *)
(* and three history fields: taken[k] counts how often input byte k was    *)
(* handed to a conversion or read, iters counts the passes of the while    *)
(* loop, and fault records a split_at / as_array! / index past the end of  *)
(* data (a panic or an out-of-bounds read).                                *)
(***************************************************************************)

\* let mut data = input; let length = data.len() as u64;
write_begin(self, input) ==
    [self   |-> self,
     data   |-> input,
     length |-> len_as_u64(Len(input)),
     taken  |-> [k \in 1..Len(input) |-> 0],
     iters  |-> 0,
     fault  |-> FALSE]

\* the frame after the next n bytes of data were read
Take(f, n) ==
    LET off == Len(f.taken) - Len(f.data)
    IN  [k \in 1..Len(f.taken) |->
            IF k > off /\ k <= off + n THEN f.taken[k] + 1 ELSE f.taken[k]]

\* data.split_at(mid): (the first mid bytes, the rest)
split_at(data, mid) == <<SubSeq(data, 1, mid), SubSeq(data, mid + 1, Len(data))>>

\* the loop condition one byte too lax
loop_cond_ge7(f) == Len(f.data) >= 7

\* while data.len() >= 8
loop_cond(f) == Len(f.data) >= 8

\* the body of the while loop
loop_body(f) ==
    IF Len(f.data) < 8 THEN [f EXCEPT !.fault = TRUE]
    ELSE LET s   == split_at(f.data, 8)
             val == convert_u64(s[1])
         IN  [f EXCEPT !.self.buffer = hash(xor(f.self.buffer, val), f.self.key),
                       !.data = s[2],
                       !.taken = Take(f, 8),
                       !.iters = @ + 1]

\* if data.len() >= 4
if4_cond(f) == Len(f.data) >= 4

\* the body of if data.len() >= 4
if4_body(f) ==
    IF Len(f.data) < 4 THEN [f EXCEPT !.fault = TRUE]
    ELSE LET s   == split_at(f.data, 4)
             val == convert_u32(s[1])
         IN  [f EXCEPT !.self.buffer =
                           rotate_left(xor(f.self.buffer, u32_as_u64(val)), 32),
                       !.data = s[2],
                       !.taken = Take(f, 4)]

\* the 2-byte step as an else branch of the 4-byte step: it is skipped when
\* the tail held 4 bytes or more
if2_cond_else(f) == Len(f.data) >= 2 /\ Len(f.taken) % 8 < 4

\* if data.len() >= 2
if2_cond(f) == Len(f.data) >= 2

\* the body of if data.len() >= 2
if2_body(f) ==
    IF Len(f.data) < 2 THEN [f EXCEPT !.fault = TRUE]
    ELSE LET s   == split_at(f.data, 2)
             val == convert_u16(s[1])
         IN  [f EXCEPT !.self.buffer =
                           rotate_left(xor(f.self.buffer, small_as_u64(val)), 16),
                       !.data = s[2],
                       !.taken = Take(f, 2)]

\* if data.len() >= 1
if1_cond(f) == Len(f.data) >= 1

\* the body of if data.len() >= 1: data[0] is read, data is not advanced
if1_body(f) ==
    IF Len(f.data) < 1 THEN [f EXCEPT !.fault = TRUE]
    ELSE [f EXCEPT !.self.buffer =
                       rotate_left(xor(f.self.buffer, small_as_u64(f.data[1])), 8),
                   !.taken = Take(f, 1)]

\* the terminating step left out for an empty input (an early return)
write_end_unless_empty(f) ==
    IF Len(f.taken) = 0 THEN f
    ELSE [f EXCEPT !.self.buffer = hash(xor(f.self.buffer, f.length), f.self.key)]

\* self.buffer = hash(self.buffer ^ length, self.key);
write_end(f) ==
    [f EXCEPT !.self.buffer = hash(xor(f.self.buffer, f.length), f.self.key)]

RECURSIVE write_loop(_)
\* the whole while loop
write_loop(f) ==
    IF ~f.fault /\ loop_cond(f) THEN write_loop(loop_body(f)) ELSE f

\* the three conditional blocks after the loop
write_tail(f) ==
    LET f4 == IF if4_cond(f) THEN if4_body(f) ELSE f
        f2 == IF if2_cond(f4) THEN if2_body(f4) ELSE f4
    IN  IF if1_cond(f2) THEN if1_body(f2) ELSE f2

RECURSIVE write_bytewise(_, _)
\* write as one write_u8 per byte
write_bytewise(self, input) ==
    IF input = << >> THEN self
    ELSE write_bytewise(write_u8(self, Head(input)), Tail(input))

\* fn write(&mut self, input: &[u8]): the hasher after the call
write(self, input) == write_end(write_tail(write_loop(write_begin(self, input)))).self

(***************************************************************************)
(* The program: two hasher variables, the calls made on them               *)
(***************************************************************************)

VARIABLES
    hasher,         \* hasher[i]: the AHasher held by variable i, or NoHasher
    log,            \* log[i]: the calls made on hasher i, its constructor first
    ret,            \* what the last call returned: NoRet, or the digest of a
                    \* finish, with its hasher and whether it is the first (1)
                    \* or a later (2) finish in a row on that hasher
    call            \* the write call in progress, block by block, or Idle

vars == <<hasher, log, ret, call>>

\* the absorption calls allowed in one run, over both hashers
MaxOps == 2

\* the longest input of a write that is followed block by block
MaxLen == 17

\* the longest input of the writes compared pairwise for collisions
MaxTail == 7

Inst == {"hasher_a", "hasher_b"}

NoHasher == [none |-> TRUE]
NoRet == [who |-> "nobody"]
Idle == [pc |-> "idle"]

\* const DEFAULT_KEYS: [u64; 2] = [const_random!(u64), const_random!(u64)]:
\* the two values the macro produced when this build was compiled
DEFAULT_KEYS == << <<4660, 22136, 37035, 52719>>, <<61389, 43981, 26505, 9029>> >>

\* the (key0, key1) given to new_with_keys
KeyPairs == { << <<0, 0, 0, 0>>, <<0, 0, 0, 0>> >>,
              << <<123, 0, 0, 0>>, <<456, 0, 0, 0>> >> }

\* the values absorbed
U8Vals == {97, 98}
U16Vals == {25185}
U32Vals == {<<1989, 0>>}
U64Vals == {<<1, 0, 0, 32768>>}
U128Vals == {<<1, 2, 3, 4, 5, 6, 7, 8>>}
UsizeVals == {<<8128, 0, 0, 0>>}

\* the byte strings absorbed by write in Spec
ShortInputs == {<< >>, <<97>>, <<97, 98>>}

\* the byte strings absorbed by write in SpecWrite: every length up to MaxLen
LongInputs ==
    { [k \in 1..n |-> (seed + 37 * (k - 1)) % 256] : n \in 0..MaxLen, seed \in {97, 255} }

RECURSIVE SeqsOfLen(_, _)
\* all sequences of length n over the set S
SeqsOfLen(S, n) ==
    IF n = 0 THEN {<< >>}
    ELSE { Append(t, x) : t \in SeqsOfLen(S, n - 1), x \in S }

\* the byte strings absorbed by write in SpecTail
TailInputs == UNION { SeqsOfLen(U8Vals, n) : n \in 0..MaxTail }

\* default drawing its keys afresh at each call: a second hasher gets other
\* keys than the first
default_fresh ==
    IF \E j \in Inst : hasher[j] # NoHasher
    THEN [buffer |-> DEFAULT_KEYS[2], key |-> DEFAULT_KEYS[1]]
    ELSE [buffer |-> DEFAULT_KEYS[1], key |-> DEFAULT_KEYS[2]]

\* impl Default for AHasher
default == [buffer |-> DEFAULT_KEYS[1], key |-> DEFAULT_KEYS[2]]

\* the absorption calls made so far, over both hashers
TotalOps ==
    LET n(i) == IF log[i] = << >> THEN 0 ELSE Len(log[i]) - 1
    IN  n("hasher_a") + n("hasher_b")

\* struct AHasher { buffer: u64, key: u64 }, each field four 16-bit limbs
IsHasher(h) ==
    /\ DOMAIN h = {"buffer", "key"}
    /\ \A l \in 1..4 : h.buffer[l] \in 0..65535 /\ h.key[l] \in 0..65535

\* the shape of the state
TypeOK ==
    /\ \A i \in Inst :
          /\ hasher[i] = NoHasher \/ IsHasher(hasher[i])
          /\ (hasher[i] = NoHasher) = (log[i] = << >>)
    /\ ret.who \in Inst \cup {"nobody"}
    /\ call.pc \in {"idle", "loop", "if4", "if2", "if1", "end", "done", "panic"}
    /\ call.pc # "idle" => hasher[call.who] = call.f.self

Init ==
    /\ hasher = [i \in Inst |-> NoHasher]
    /\ log = [i \in Inst |-> << >>]
    /\ ret = NoRet
    /\ call = Idle

\* let i = AHasher::default();
Default(i) ==
    /\ call = Idle
    /\ hasher[i] = NoHasher
    /\ hasher' = [hasher EXCEPT ![i] = default]
    /\ log' = [log EXCEPT ![i] = <<[op |-> "default", arg |-> << >>]>>]
    /\ ret' = NoRet
    /\ UNCHANGED call

\* let i = AHasher::new_with_keys(key0, key1);
NewWithKeys(i, key0, key1) ==
    /\ call = Idle
    /\ hasher[i] = NoHasher
    /\ hasher' = [hasher EXCEPT ![i] = new_with_keys(key0, key1)]
    /\ log' = [log EXCEPT ![i] = <<[op |-> "new_with_keys", arg |-> <<key0, key1>>]>>]
    /\ ret' = NoRet
    /\ UNCHANGED call

\* let j = i.clone();
Clone(i, j) ==
    /\ call = Idle
    /\ hasher[i] # NoHasher
    /\ hasher[j] = NoHasher
    /\ hasher' = [hasher EXCEPT ![j] = hasher[i]]
    /\ log' = [log EXCEPT ![j] = log[i]]
    /\ ret' = NoRet
    /\ UNCHANGED call

\* an absorption call on hasher i that leaves it as after
Absorb(i, name, arg, after) ==
    /\ call = Idle
    /\ hasher[i] # NoHasher
    /\ TotalOps < MaxOps
    /\ hasher' = [hasher EXCEPT ![i] = after]
    /\ log' = [log EXCEPT ![i] = Append(@, [op |-> name, arg |-> arg])]
    /\ ret' = NoRet
    /\ UNCHANGED call

\* i.write_u8(v);
WriteU8(i, v) == Absorb(i, "write_u8", v, write_u8(hasher[i], v))

\* i.write_u16(v);
WriteU16(i, v) == Absorb(i, "write_u16", v, write_u16(hasher[i], v))

\* i.write_u32(v);
WriteU32(i, v) == Absorb(i, "write_u32", v, write_u32(hasher[i], v))

\* i.write_u64(v);
WriteU64(i, v) == Absorb(i, "write_u64", v, write_u64(hasher[i], v))

\* i.write_u128(v);
WriteU128(i, v) == Absorb(i, "write_u128", v, write_u128(hasher[i], v))

\* i.write_usize(v);
WriteUsize(i, v) == Absorb(i, "write_usize", v, write_usize(hasher[i], v))

\* i.write(input);
Write(i, input) == Absorb(i, "write", input, write(hasher[i], input))

\* i.finish()
Finish(i) ==
    /\ call = Idle
    /\ hasher[i] # NoHasher
    /\ ret' = [who |-> i, value |-> finish(hasher[i]),
                nth |-> IF ret.who = i THEN 2 ELSE 1]
    /\ UNCHANGED <<hasher, log, call>>

Next ==
    \E i \in Inst :
        \/ Default(i)
        \/ \E k \in KeyPairs : NewWithKeys(i, k[1], k[2])
        \/ \E j \in Inst : Clone(i, j)
        \/ \E v \in U8Vals : WriteU8(i, v)
        \/ \E v \in U16Vals : WriteU16(i, v)
        \/ \E v \in U32Vals : WriteU32(i, v)
        \/ \E v \in U64Vals : WriteU64(i, v)
        \/ \E v \in U128Vals : WriteU128(i, v)
        \/ \E v \in UsizeVals : WriteUsize(i, v)
        \/ \E input \in ShortInputs : Write(i, input)
        \/ Finish(i)

Spec == Init /\ [][Next]_vars

(***************************************************************************)
(* SpecWrite: one write on a fresh hasher, followed block by block         *)
(***************************************************************************)

\* the call record after a block left the frame as f: a fault ends the run
After(f, pc) ==
    [call EXCEPT !.f = f, !.pc = IF f.fault THEN "panic" ELSE pc]

\* i.write(input) is entered: the locals are set up
WriteCall(i, input) ==
    /\ call = Idle
    /\ hasher[i] # NoHasher
    /\ TotalOps < MaxOps
    /\ call' = [pc |-> "loop", who |-> i, input |-> input, entry |-> hasher[i],
                f |-> write_begin(hasher[i], input)]
    /\ ret' = NoRet
    /\ UNCHANGED <<hasher, log>>

\* the effect of a block on the program state
Block(f, pc) ==
    /\ call' = After(f, pc)
    /\ hasher' = [hasher EXCEPT ![call.who] = f.self]
    /\ UNCHANGED <<log, ret>>

\* one test of the while condition, and one pass of the loop if it holds
WriteLoop ==
    /\ call.pc = "loop"
    /\ IF loop_cond(call.f) THEN Block(loop_body(call.f), "loop")
                            ELSE Block(call.f, "if4")

\* if data.len() >= 4 { .. }
WriteIf4 ==
    /\ call.pc = "if4"
    /\ Block(IF if4_cond(call.f) THEN if4_body(call.f) ELSE call.f, "if2")

\* if data.len() >= 2 { .. }
WriteIf2 ==
    /\ call.pc = "if2"
    /\ Block(IF if2_cond(call.f) THEN if2_body(call.f) ELSE call.f, "if1")

\* if data.len() >= 1 { .. }
WriteIf1 ==
    /\ call.pc = "if1"
    /\ Block(IF if1_cond(call.f) THEN if1_body(call.f) ELSE call.f, "end")

\* the terminating step
WriteEnd ==
    /\ call.pc = "end"
    /\ Block(write_end(call.f), "done")

\* the call returns
WriteReturn ==
    /\ call.pc = "done"
    /\ call' = Idle
    /\ log' = [log EXCEPT ![call.who] = Append(@, [op |-> "write", arg |-> call.input])]
    /\ UNCHANGED <<hasher, ret>>

NextWrite ==
    \/ \E i \in Inst :
        \/ Default(i)
        \/ \E k \in KeyPairs : NewWithKeys(i, k[1], k[2])
        \/ \E input \in LongInputs : TotalOps = 0 /\ WriteCall(i, input)
        \/ Finish(i)
    \/ WriteLoop
    \/ WriteIf4
    \/ WriteIf2
    \/ WriteIf1
    \/ WriteEnd
    \/ WriteReturn

SpecWrite == Init /\ [][NextWrite]_vars

(***************************************************************************)
(* SpecTail: a hasher and its clone each absorb one short byte string,     *)
(* hasher_a first and then hasher_b one of the same length                 *)
(***************************************************************************)

\* i.write(input), the first call on i, both hashers being there
TailWrite(i, input) ==
    /\ \A j \in Inst : Len(log[j]) >= 1
    /\ Len(log[i]) = 1
    /\ Write(i, input)

NextTail ==
    \/ Default("hasher_a")
    \/ \E k \in KeyPairs : NewWithKeys("hasher_a", k[1], k[2])
    \/ Clone("hasher_a", "hasher_b")
    \/ /\ Len(log["hasher_a"]) = 1
       /\ \E input \in TailInputs : TailWrite("hasher_a", input)
    \/ /\ Len(log["hasher_a"]) = 2
       /\ Len(log["hasher_b"]) = 1
       /\ \E input \in SeqsOfLen(U8Vals, Len(log["hasher_a"][2].arg)) :
              TailWrite("hasher_b", input)

SpecTail == Init /\ [][NextTail]_vars

(***************************************************************************)
(* SpecMix: the mixing function on chosen data.  A hasher built by         *)
(* new_with_keys(data, key) has buffer = data, and its finish() is         *)
(* hash(data, key).                                                        *)
(***************************************************************************)

\* bit positions of the data words: around the limb borders and around bit
\* 47, the bit that rotate_left(17) moves to the top
MixBits == {0, 1, 15, 16, 31, 32, 46, 47, 48, 63}

\* the data words: 0 and the words with one bit set
MixData ==
    {<<0, 0, 0, 0>>} \cup
    { [l \in 1..4 |-> IF l = (b \div 16) + 1 THEN Pow2(b % 16) ELSE 0] : b \in MixBits }

\* the keys the data words are mixed with
MixKeys == {<<0, 0, 0, 0>>, <<456, 0, 0, 0>>, <<65535, 65535, 65535, 65535>>}

NextMix ==
    \E i \in Inst :
        \/ \E d \in MixData, k \in MixKeys : NewWithKeys(i, d, k)
        \/ Finish(i)

SpecMix == Init /\ [][NextMix]_vars

(***************************************************************************)
(* Properties                                                              *)
(***************************************************************************)

\* the hasher a constructor call c returned
Constructed(c) ==
    IF c.op = "default" THEN default ELSE new_with_keys(c.arg[1], c.arg[2])

\* a byte string of at most 8 bytes read as a little-endian number, as a u64
LittleEndian(b) ==
    LET byte(k) == IF k <= Len(b) THEN b[k] ELSE 0
    IN  [l \in 1..4 |-> byte(2 * l - 1) + 256 * byte(2 * l)]

RECURSIVE ChunksMixed(_, _, _, _)
\* the buffer after the first q 8-byte chunks of input were mixed in, in order
ChunksMixed(buffer, key, input, q) ==
    IF q = 0 THEN buffer
    ELSE hash(xor(ChunksMixed(buffer, key, input, q - 1),
                  LittleEndian(SubSeq(input, 8 * q - 7, 8 * q))), key)

\* the buffer write(input) is to leave: chunks, tail cascade, length
WriteResult(buffer, key, input) ==
    LET n  == Len(input)
        b0 == ChunksMixed(buffer, key, input, n \div 8)
        t0 == SubSeq(input, 8 * (n \div 8) + 1, n)
        b1 == IF Len(t0) >= 4
              THEN rotate_left(xor(b0, LittleEndian(SubSeq(t0, 1, 4))), 32) ELSE b0
        t1 == IF Len(t0) >= 4 THEN SubSeq(t0, 5, Len(t0)) ELSE t0
        b2 == IF Len(t1) >= 2
              THEN rotate_left(xor(b1, LittleEndian(SubSeq(t1, 1, 2))), 16) ELSE b1
        t2 == IF Len(t1) >= 2 THEN SubSeq(t1, 3, Len(t1)) ELSE t1
        b3 == IF Len(t2) >= 1
              THEN rotate_left(xor(b2, LittleEndian(SubSeq(t2, 1, 1))), 8) ELSE b2
    IN  hash(xor(b3, len_as_u64(n)), key)

\* C1: when write(input) has run all its blocks, key is what it was on entry
\* and buffer is the entry buffer with the floor(n/8) leading chunks mixed in
\* in order, then the 4-, 2- and 1-byte tail steps that fit applied in
\* sequence, then the length n mixed in.
C1_WriteComputes ==
    call.pc = "done" =>
        /\ hasher[call.who].key = call.entry.key
        /\ hasher[call.who].buffer =
               WriteResult(call.entry.buffer, call.entry.key, call.input)

\* a write of 15 bytes (one chunk and a 7-byte tail) has run all its blocks
C1_Witness ==
    /\ call.pc = "done"
    /\ Len(call.input) = 15
    /\ call.entry.buffer # <<0, 0, 0, 0>>

\* C2, as claimed: a write of the empty string leaves buffer = mix(buffer on
\* entry, key), and that differs from the buffer on entry.
C2_EmptyWriteChanges ==
    (call.pc = "done" /\ call.input = << >>) =>
        /\ hasher[call.who].buffer = hash(call.entry.buffer, call.entry.key)
        /\ hasher[call.who].buffer # call.entry.buffer

\* C2, amended: a write of the empty string runs no pass of the loop and no
\* tail step (the buffer is untouched up to the terminating step), and
\* leaves buffer = mix(buffer on entry, key) and key as it was.
C2_EmptyWrite ==
    (call.pc # "idle" /\ call.input = << >>) =>
        /\ call.f.iters = 0
        /\ call.pc # "panic"
        /\ call.pc # "done" => hasher[call.who] = call.entry
        /\ call.pc = "done" =>
               /\ hasher[call.who].buffer = hash(call.entry.buffer, call.entry.key)
               /\ hasher[call.who].key = call.entry.key

\* a write of the empty string on a hasher with nonzero keys has run
C2_Witness ==
    /\ call.pc = "done"
    /\ call.input = << >>
    /\ call.entry.key # <<0, 0, 0, 0>>
    /\ hasher[call.who].buffer # call.entry.buffer

\* the key a constructor call was given
KeyGiven(c) == IF c.op = "default" THEN DEFAULT_KEYS[2] ELSE c.arg[2]

\* C3: in every step the key of each hasher stays the key given at its
\* construction, and a finish step changes no hasher, returns
\* mix(buffer, key), and returns what the finish just before it on the same
\* hasher returned.
C3_KeyFixedFinishReadOnly ==
    [][\A i \in Inst :
          /\ hasher'[i] # NoHasher => hasher'[i].key = KeyGiven(log'[i][1])
          /\ hasher[i] # NoHasher => hasher'[i].key = hasher[i].key
          /\ ret'.who = i =>
                /\ hasher' = hasher
                /\ ret'.value = hash(hasher[i].buffer, hasher[i].key)
                /\ ret.who = i => ret'.value = ret.value]_vars

\* finish was called twice in a row on a hasher that had absorbed two values
C3_Witness ==
    /\ ret.who \in Inst
    /\ ret.nth = 2
    /\ Len(log[ret.who]) = 3
    /\ hasher[ret.who].key = KeyGiven(log[ret.who][1])

\* C4: a write_u128(v) step leaves the hasher as write_u64(v mod 2^64)
\* followed by write_u64(v div 2^64) would.
C4_U128IsTwoU64 ==
    [][\A i \in Inst : \A v \in U128Vals :
          log'[i] = Append(log[i], [op |-> "write_u128", arg |-> v]) =>
              hasher'[i] =
                  write_u64(write_u64(hasher[i], SubSeq(v, 1, 4)), SubSeq(v, 5, 8))]_vars

\* a write_u128 was made on a hasher that had absorbed something before
C4_Witness ==
    \E i \in Inst :
        /\ Len(log[i]) = 3
        /\ log[i][2].op # "write_u128"
        /\ log[i][3].op = "write_u128"

\* C5: of two hashers built by new_with_keys with the same keys, one having
\* absorbed write([0x61]) and the other write([0x61, 0x62]), the digests
\* differ.
C5_PrefixDigestsDiffer ==
    \A i, j \in Inst :
        ( /\ Len(log[i]) = 2
          /\ Len(log[j]) = 2
          /\ log[i][1].op = "new_with_keys"
          /\ log[j][1] = log[i][1]
          /\ log[i][2] = [op |-> "write", arg |-> <<97>>]
          /\ log[j][2] = [op |-> "write", arg |-> <<97, 98>>] )
        => finish(hasher[i]) # finish(hasher[j])

\* both hashers were built with keys (123, 456); one absorbed [0x61], the
\* other [0x61, 0x62]
C5_Witness ==
    /\ log["hasher_a"] = <<[op |-> "new_with_keys",
                            arg |-> << <<123, 0, 0, 0>>, <<456, 0, 0, 0>> >>],
                           [op |-> "write", arg |-> <<97>>]>>
    /\ log["hasher_b"] = <<log["hasher_a"][1], [op |-> "write", arg |-> <<97, 98>>]>>

\* C6: a hasher that absorbed write_u8(x) and then write_u8(y) differs, in
\* buffer and in digest, from what write([x, y]) makes of the same starting
\* state.
C6_BytewiseDiffersFromBulk ==
    \A i \in Inst :
        ( /\ Len(log[i]) = 3
          /\ log[i][2].op = "write_u8"
          /\ log[i][3].op = "write_u8" )
        => LET bulk == write(Constructed(log[i][1]), <<log[i][2].arg, log[i][3].arg>>)
           IN  /\ hasher[i].buffer # bulk.buffer
               /\ finish(hasher[i]) # finish(bulk)

\* a hasher built with keys (123, 456) absorbed write_u8(0x61), write_u8(0x62)
C6_Witness ==
    \E i \in Inst :
        /\ Len(log[i]) = 3
        /\ log[i][1].op = "new_with_keys"
        /\ log[i][1].arg[2] = <<456, 0, 0, 0>>
        /\ log[i][2] = [op |-> "write_u8", arg |-> 97]
        /\ log[i][3] = [op |-> "write_u8", arg |-> 98]

\* C7: a default-constructed hasher starts as (DEFAULT_KEYS[0],
\* DEFAULT_KEYS[1]), and two default-constructed hashers on which the same
\* calls were made hold the same state and give the same digest.
C7_DefaultHashersAgree ==
    /\ \A i \in Inst :
          (Len(log[i]) = 1 /\ log[i][1].op = "default") =>
              hasher[i] = [buffer |-> DEFAULT_KEYS[1], key |-> DEFAULT_KEYS[2]]
    /\ \A i, j \in Inst :
          ( /\ Len(log[i]) >= 1
            /\ log[i][1].op = "default"
            /\ log[j] = log[i] )
          => /\ hasher[i] = hasher[j]
             /\ finish(hasher[i]) = finish(hasher[j])

\* two hashers were default-constructed one after the other and the same
\* absorption call was made on each
C7_Witness ==
    /\ Len(log["hasher_a"]) = 2
    /\ log["hasher_a"][1].op = "default"
    /\ log["hasher_b"] = log["hasher_a"]
    /\ hasher["hasher_a"].buffer # DEFAULT_KEYS[1]

\* C8: no block of write reads past the end of data; once the loop is left
\* it has made floor(n/8) passes; no byte is ever read twice; and when the
\* terminating step runs, and after it, every input byte was read once.
C8_ReadsInBounds ==
    call.pc # "idle" =>
        /\ call.pc # "panic"
        /\ ~call.f.fault
        /\ \A k \in 1..Len(call.input) : call.f.taken[k] <= 1
        /\ call.f.iters <= Len(call.input) \div 8
        /\ call.pc # "loop" => call.f.iters = Len(call.input) \div 8
        /\ call.pc \in {"end", "done"} =>
               \A k \in 1..Len(call.input) : call.f.taken[k] = 1

\* the terminating step of a write of 17 bytes (two chunks, one tail byte) is
\* about to run
C8_Witness ==
    /\ call.pc = "end"
    /\ Len(call.input) = 17
    /\ call.f.iters = 2

\* C9: for one key, distinct data give distinct hash(data, key); and
\* hash(1 << 32, 0) differs from hash(1, 0).
C9_MixInjective ==
    /\ \A i, j \in Inst :
          ( /\ hasher[i] # NoHasher
            /\ hasher[j] # NoHasher
            /\ hasher[i].key = hasher[j].key
            /\ hasher[i].buffer # hasher[j].buffer )
          => hash(hasher[i].buffer, hasher[i].key) # hash(hasher[j].buffer, hasher[j].key)
    /\ \A i \in Inst :
          (ret.who = i /\ hasher[i] = new_with_keys(<<0, 0, 1, 0>>, <<0, 0, 0, 0>>))
          => ret.value # hash(<<1, 0, 0, 0>>, <<0, 0, 0, 0>>)

\* hash(1 << 32, 0) was computed, beside a hasher holding data 1 and key 0
C9_Witness ==
    /\ ret.who = "hasher_a"
    /\ hasher["hasher_a"] = new_with_keys(<<0, 0, 1, 0>>, <<0, 0, 0, 0>>)
    /\ hasher["hasher_b"] = new_with_keys(<<1, 0, 0, 0>>, <<0, 0, 0, 0>>)

\* C10, as claimed: a hasher and its clone that absorbed two distinct byte
\* strings of the same length (at most 8) by write differ in buffer and in
\* digest.
C10_TailInjective ==
    \A i, j \in Inst :
        ( /\ Len(log[i]) = 2
          /\ Len(log[j]) = 2
          /\ log[i][1] = log[j][1]
          /\ log[i][2].op = "write"
          /\ log[j][2].op = "write"
          /\ Len(log[i][2].arg) = Len(log[j][2].arg)
          /\ Len(log[i][2].arg) <= 8
          /\ log[i][2].arg # log[j][2].arg )
        => /\ hasher[i].buffer # hasher[j].buffer
           /\ finish(hasher[i]) # finish(hasher[j])

====
